---- MODULE Spec2Model ----
(***************************************************************************)
(* The command front-end of mazer (ansible_galaxy_cli/cli/galaxy.py):      *)
(* GalaxyCLI.parse, GalaxyCLI.run, the context builder and the execute_*   *)
(* handlers, as one state machine per invocation.                          *)
(*                                                                         *)
(* Values.  A path or URL string is the sequence of its components; the    *)
(* empty string is <<>>.  Python's None, for a field that holds a string   *)
(* or None, is the value None below.  A store_true flag is a BOOLEAN whose *)
(* FALSE stands for the parser's unset default (None or False): the code   *)
(* only ever tests such a flag for truth.  A content spec string is opaque *)
(* to this layer and is a number.  A message is a sequence of its pieces.  *)
(***************************************************************************)
EXTENDS Integers, Sequences, FiniteSets, TLC

VARIABLES
    pc,                 \* position of the invocation: "parse", "run", "context", "execute", "done"
    argv_action,        \* the action word on the command line
    environ,            \* os.environ, a function from the variables that are set to their values
    action,             \* self.action
    options,            \* self.options
    args,               \* self.args
    config_file_path,   \* self.config_file_path
    config,             \* self.config
    galaxy_context,     \* run()'s galaxy_context
    api,                \* self.api
    calls,              \* the calls made to the external action handlers, in order
    log_exceptions,     \* what log.exception() was given, in order
    result              \* how the invocation ended

vars == <<pc, argv_action, environ, action, options, args, config_file_path,
          config, galaxy_context, api, calls, log_exceptions, result>>

(***************************************************************************)
(* Bounds and input sets                                                   *)
(***************************************************************************)
\* the longest positional-argument list
MaxArgs == 2

None == <<"None">>

\* python truthiness of a str-or-None value
Truthy(v) == v # None /\ v # <<>>

\* python's  a or b
Or(a, b) == IF Truthy(a) THEN a ELSE b

HOME == <<"/", "home", "user">>
CWD == <<"/", "work">>

\* the positional-argument lists: <<>>, <<1>>, <<1, 2>>, ...
ArgLists == {[i \in 1..n |-> i] : n \in 0..MaxArgs}

OptionContentPaths == {None, <<>>, <<"rel", "content">>, <<"~", "mine">>}
OptionServerUrls == {None, <<>>, <<"https://cli.example">>}

ConfigContentPaths == {None, <<>>, <<"~", ".ansible", "content">>}
ConfigGlobalContentPaths == {<<>>, <<"/", "usr", "share", "ansible", "content">>}
ConfigServers == [url : {<<"https://galaxy.example">>}, ignore_certs : BOOLEAN]

\* the documents config.load() can return
Configs == [server : ConfigServers,
            content_path : ConfigContentPaths,
            global_content_path : ConfigGlobalContentPaths]

\* the environments the process can start in
Environs ==
    LET primary == {<<>>, <<"/", "etc", "mazer.yml">>}
        legacy == {<<"~", ".", "legacy.yml">>}
    IN  {<<>>}
        \cup {[v \in {"MAZER_CONFIG"} |-> p] : p \in primary \ {<<>>}}
        \cup {[v \in {"ANSIBLE_GALAXY_CONFIG"} |-> l] : l \in legacy}
        \cup {[v \in {"MAZER_CONFIG", "ANSIBLE_GALAXY_CONFIG"} |->
                  IF v = "MAZER_CONFIG" THEN p ELSE l] : p \in primary, l \in legacy}

NoConfig == [loaded |-> FALSE]
NoContext == [built |-> FALSE]
NoApi == [created |-> FALSE]
NoOptions == [parsed |-> FALSE]
NoExc == [type |-> "", message |-> <<>>]
NoResult == [kind |-> "none", rc |-> 0, exc |-> NoExc]

Return(rc) == [kind |-> "return", rc |-> rc, exc |-> NoExc]
Raise(exc) == [kind |-> "raise", rc |-> 0, exc |-> exc]

(***************************************************************************)
(* Exceptions                                                              *)
(***************************************************************************)
CliOptionsError(message) == [type |-> "CliOptionsError", message |-> message]
GalaxyCliError(message) == [type |-> "GalaxyCliError", message |-> message]
\* os.path.expanduser(None)
TypeError == [type |-> "TypeError", message |-> <<"expected str, bytes or os.PathLike object, not NoneType">>]
\* a failure of an external handler that is no error of this layer
UnexpectedErrors == {[type |-> "RuntimeError", message |-> <<"boom">>]}

(***************************************************************************)
(* os.path                                                                 *)
(***************************************************************************)
isabs(path) == path # <<>> /\ Head(path) = "/"

expanduser(path) ==
    IF path # <<>> /\ Head(path) = "~" THEN HOME \o Tail(path) ELSE path

RECURSIVE normparts(_, _)
\* the components of parts, after the components of done, with "." dropped
\* and ".." taking back the component before it
normparts(done, parts) ==
    IF parts = <<>> THEN done
    ELSE IF Head(parts) = "." THEN normparts(done, Tail(parts))
    ELSE IF Head(parts) = ".."
         THEN normparts(IF Len(done) > 1 THEN SubSeq(done, 1, Len(done) - 1) ELSE done,
                        Tail(parts))
    ELSE normparts(Append(done, Head(parts)), Tail(parts))

abspath(path) ==
    IF isabs(path) THEN normparts(<<"/">>, Tail(path))
    ELSE normparts(<<>>, CWD \o path)

(***************************************************************************)
(* Module-level functions                                                  *)
(***************************************************************************)
ignore_error_blurb ==
    <<"- you can use --ignore-errors to skip failed content items and finish processing the list.">>

exit_without_ignore_always(ignore_errors, msg) ==
    Raise(GalaxyCliError(IF msg # <<>> THEN msg \o <<":\n">> \o ignore_error_blurb
                         ELSE ignore_error_blurb))

\* Raise(GalaxyCliError) unless ignore_errors, else Return(0) for python's None
exit_without_ignore(ignore_errors, msg) ==
    IF ~ignore_errors
    THEN LET message == IF msg # <<>>
                        THEN msg \o <<":\n">> \o ignore_error_blurb
                        ELSE ignore_error_blurb
         IN  Raise(GalaxyCliError(message))
    ELSE Return(0)

ENV_VARS_legacy_first == <<"ANSIBLE_GALAXY_CONFIG", "MAZER_CONFIG">>

ENV_VARS == <<"MAZER_CONFIG", "ANSIBLE_GALAXY_CONFIG">>

\* os.environ.get(env_var, None)
environ_get(env, env_var) == IF env_var \in DOMAIN env THEN env[env_var] ELSE None

RECURSIVE env_loop(_, _)
env_loop(env, i) ==
    IF i > Len(ENV_VARS) THEN None
    ELSE LET raw_config_file_path == environ_get(env, ENV_VARS[i])
         IN  IF Truthy(raw_config_file_path) THEN raw_config_file_path
             ELSE env_loop(env, i + 1)

get_config_path_from_env(env) == env_loop(env, 1)

\* defaults.CONFIG_FILE
CONFIG_FILE == <<"~", ".ansible", "mazer.yml">>

(***************************************************************************)
(* GalaxyCLI                                                               *)
(***************************************************************************)
VALID_ACTIONS == {"build", "info", "install", "list", "remove", "version"}
VALID_ACTION_ALIASES == [a \in {"content-install"} |-> "install"]

ArgvActions == VALID_ACTIONS \cup DOMAIN VALID_ACTION_ALIASES \cup {"frobnicate"}

\* cli.CLI.set_action: the action word through the alias table, "" when it is no action
base_set_action(word) ==
    IF word \in VALID_ACTIONS THEN word
    ELSE IF word \in DOMAIN VALID_ACTION_ALIASES THEN VALID_ACTION_ALIASES[word]
    ELSE ""

\* The options records the parser can hand back for an action: the options
\* parse() and set_action() register for it, each over its input set.
ParsedOptions(act) ==
    IF act = "build"
    THEN [server_url : OptionServerUrls, ignore_certs : BOOLEAN,
          collection_path : {None, <<"/", "src", "coll">>}, output_path : {None},
          content_path : OptionContentPaths]
    ELSE IF act = "info"
    THEN [server_url : OptionServerUrls, ignore_certs : BOOLEAN,
          offline : BOOLEAN, content_path : OptionContentPaths]
    ELSE IF act = "install"
    THEN [server_url : OptionServerUrls, ignore_certs : BOOLEAN,
          global_install : BOOLEAN, editable_install : {FALSE},
          ignore_errors : BOOLEAN, no_deps : {FALSE}, role_file : {None},
          namespace : {None}, content_path : OptionContentPaths, force : {FALSE}]
    ELSE IF act = "version"
    THEN [server_url : OptionServerUrls, ignore_certs : BOOLEAN]
    ELSE [server_url : OptionServerUrls, ignore_certs : BOOLEAN,
          content_path : OptionContentPaths]

\* parse()'s test of install's two content-path sources, made wrongly with "or"
mutually_exclusive_either(act, opts) ==
    act = "install" /\ (Truthy(opts.content_path) \/ opts.global_install)

\* parse()'s test of install's two content-path sources
mutually_exclusive(act, opts) ==
    act = "install" /\ Truthy(opts.content_path) /\ opts.global_install

\* _get_galaxy_context without the copy of config.server: the overrides land
\* in the configuration document
_get_galaxy_context_shared_server(opts, cfg) ==
    LET options_content_path ==
            IF "content_path" \in DOMAIN opts THEN opts.content_path ELSE None
        from_options_or_config == Or(options_content_path, cfg.content_path)
        raw_content_path ==
            IF "global_install" \in DOMAIN opts /\ opts.global_install
            THEN cfg.global_content_path
            ELSE from_options_or_config
    IN  IF raw_content_path = None
        THEN [raised |-> TRUE, exc |-> TypeError, context |-> NoContext, config |-> cfg]
        ELSE LET content_path == expanduser(raw_content_path)
                 server0 == cfg.server
                 server1 == IF Truthy(opts.server_url)
                            THEN [server0 EXCEPT !.url = opts.server_url]
                            ELSE server0
                 server == IF opts.ignore_certs
                           THEN [server1 EXCEPT !.ignore_certs = opts.ignore_certs]
                           ELSE server1
             IN  [raised |-> FALSE, exc |-> NoExc,
                  context |-> [server |-> server, content_path |-> content_path],
                  config |-> [cfg EXCEPT !.server = server]]

\* _get_galaxy_context(options, config): what it raises or returns, and the
\* configuration document as the call leaves it
_get_galaxy_context(opts, cfg) ==
    LET options_content_path ==
            IF "content_path" \in DOMAIN opts THEN opts.content_path ELSE None
        from_options_or_config == Or(options_content_path, cfg.content_path)
        raw_content_path ==
            IF "global_install" \in DOMAIN opts /\ opts.global_install
            THEN cfg.global_content_path
            ELSE from_options_or_config
    IN  IF raw_content_path = None
        THEN [raised |-> TRUE, exc |-> TypeError, context |-> NoContext, config |-> cfg]
        ELSE LET content_path == expanduser(raw_content_path)
                 \* server = config.server.copy()
                 server0 == cfg.server
                 server1 == IF Truthy(opts.server_url)
                            THEN [server0 EXCEPT !.url = opts.server_url]
                            ELSE server0
                 server == IF opts.ignore_certs
                           THEN [server1 EXCEPT !.ignore_certs = opts.ignore_certs]
                           ELSE server1
             IN  [raised |-> FALSE, exc |-> NoExc,
                  context |-> [server |-> server, content_path |-> content_path],
                  config |-> cfg]

Init ==
    /\ pc = "parse"
    /\ argv_action \in ArgvActions
    /\ environ \in Environs
    /\ action = ""
    /\ options = NoOptions
    /\ args = <<>>
    /\ config_file_path = None
    /\ config = NoConfig
    /\ galaxy_context = NoContext
    /\ api = NoApi
    /\ calls = <<>>
    /\ log_exceptions = <<>>
    /\ result = NoResult

\* parse(): the parser is built, the action set, the command line parsed and
\* install's two content-path sources checked against each other
parse ==
    /\ pc = "parse"
    /\ LET act == base_set_action(argv_action)
       IN  IF act = ""
           THEN /\ result' = Raise(CliOptionsError(<<"Missing required action">>))
                /\ pc' = "done"
                /\ UNCHANGED <<action, options, args>>
           ELSE \E opts \in ParsedOptions(act), positional \in ArgLists :
                    /\ action' = act
                    /\ options' = opts
                    /\ args' = positional
                    /\ IF mutually_exclusive(act, opts)
                       THEN /\ result' = Raise(CliOptionsError(
                                   <<"--content-path and --global are mutually exclusive">>))
                            /\ pc' = "done"
                       ELSE /\ pc' = "run"
                            /\ UNCHANGED result
    /\ UNCHANGED <<argv_action, environ, config_file_path, config, galaxy_context,
                   api, calls, log_exceptions>>


\* run(), to the loaded configuration
run_load_config ==
    /\ pc = "run"
    /\ LET raw_config_file_path == Or(get_config_path_from_env(environ), CONFIG_FILE)
       IN  config_file_path' = abspath(expanduser(raw_config_file_path))
    /\ \E document \in Configs : config' = document
    /\ pc' = "context"
    /\ UNCHANGED <<argv_action, environ, action, options, args, galaxy_context, api,
                   calls, log_exceptions, result>>

\* run(), from the context to the registry API object
run_build_context ==
    /\ pc = "context"
    /\ LET built == _get_galaxy_context(options, config)
       IN  /\ config' = built.config
           /\ IF built.raised
              THEN /\ result' = Raise(built.exc)
                   /\ pc' = "done"
                   /\ UNCHANGED <<galaxy_context, api>>
              ELSE /\ galaxy_context' = built.context
                   /\ api' = [created |-> TRUE, galaxy_context |-> built.context]
                   /\ pc' = "execute"
                   /\ UNCHANGED result
    /\ UNCHANGED <<argv_action, environ, action, options, args, config_file_path,
                   calls, log_exceptions>>

\* what an external action handler can do: return a code, or fail
HandlerOutcomes == {Return(0), Return(1)} \cup {Raise(e) : e \in UnexpectedErrors}

\* the end of an execute_* method that lets its handler's outcome through
\* as it is: the call is made, its outcome is the invocation's
Handled(handler, context, kwargs, outcome) ==
    /\ calls' = Append(calls, [handler |-> handler, galaxy_context |-> context,
                               kwargs |-> kwargs, outcome |-> outcome])
    /\ result' = outcome
    /\ pc' = "done"

\* an execute_* method leaves by an exception of its own
Failed(exc) ==
    /\ result' = Raise(exc)
    /\ pc' = "done"
    /\ UNCHANGED calls

ExecuteFrame ==
    UNCHANGED <<argv_action, environ, action, options, args, config_file_path,
                galaxy_context, api>>

join(path, name) == Append(path, name)

execute_build ==
    /\ pc = "execute" /\ action = "build"
    /\ LET built == _get_galaxy_context(options, config)
           cwd == CWD
           collection_path == Or(options.collection_path, cwd)
           output_path == Or(options.output_path, join(collection_path, "releases"))
           build_context == [collection_path |-> collection_path,
                             output_path |-> output_path]
       IN  /\ config' = built.config
           /\ IF built.raised THEN Failed(built.exc)
              ELSE \E outcome \in HandlerOutcomes :
                       Handled("build.build", built.context,
                               [build_context |-> build_context], outcome)
    /\ UNCHANGED log_exceptions
    /\ ExecuteFrame

\* execute_info without its test of the argument list
execute_info_unchecked ==
    /\ pc = "execute" /\ action = "info"
    /\ LET built == _get_galaxy_context(options, config)
       IN  /\ config' = built.config
           /\ IF built.raised THEN Failed(built.exc)
              ELSE \E outcome \in HandlerOutcomes :
                       Handled("info.info_content_specs", built.context,
                               [api |-> api, content_specs |-> args,
                                offline |-> options.offline], outcome)
    /\ UNCHANGED log_exceptions
    /\ ExecuteFrame

execute_info ==
    /\ pc = "execute" /\ action = "info"
    /\ IF Len(args) = 0
       THEN /\ Failed(CliOptionsError(<<"- you must specify a user/role name">>))
            /\ UNCHANGED config
       ELSE LET built == _get_galaxy_context(options, config)
            IN  /\ config' = built.config
                /\ IF built.raised THEN Failed(built.exc)
                   ELSE \E outcome \in HandlerOutcomes :
                            Handled("info.info_content_specs", built.context,
                                    [api |-> api, content_specs |-> args,
                                     offline |-> options.offline], outcome)
    /\ UNCHANGED log_exceptions
    /\ ExecuteFrame

\* What the external installer meets on one call: an outcome of its own
\* (a code to return, or a failure that is none of this layer's), the targets
\* that fail recoverably, and the message it explains such a failure with
InstallBehaviours(specs) ==
    {b \in [outcome : HandlerOutcomes,
            failing : SUBSET (1..Len(specs)),
            msg : {<<>>, <<"content was not installed">>}] :
        b.failing = {} => b.msg = <<>>}

RECURSIVE install_loop(_, _, _, _)
\* install.install_content_specs, from target i on: the targets are taken one
\* at a time in the order given; a failing target goes to exit_without_ignore,
\* which ends the call or lets it go on to the next target
install_loop(specs, i, ignore_errors, behaviour) ==
    IF i > Len(specs) THEN [outcome |-> behaviour.outcome, processed |-> <<>>]
    ELSE IF specs[i] \in behaviour.failing
    THEN LET policy == exit_without_ignore(ignore_errors, behaviour.msg)
         IN  IF policy.kind = "raise"
             THEN [outcome |-> policy, processed |-> <<specs[i]>>]
             ELSE LET rest == install_loop(specs, i + 1, ignore_errors, behaviour)
                  IN  [rest EXCEPT !.processed = <<specs[i]>> \o @]
    ELSE LET rest == install_loop(specs, i + 1, ignore_errors, behaviour)
         IN  [rest EXCEPT !.processed = <<specs[i]>> \o @]

install_content_specs(specs, ignore_errors, behaviour) ==
    install_loop(specs, 1, ignore_errors, behaviour)

\* execute_install's try statement, with a handler that turns a failure of
\* the installer into a return code
install_try_swallow(outcome) ==
    IF outcome.kind = "raise"
    THEN [result |-> Return(1), logged |-> <<outcome.exc>>]
    ELSE [result |-> Return(outcome.rc), logged |-> <<>>]

\* execute_install's try statement around the installer's call: what any
\* exception of the call is logged as, and how the method ends
install_try(outcome) ==
    IF outcome.kind = "raise"
    THEN [result |-> outcome, logged |-> <<outcome.exc>>]
    ELSE [result |-> Return(outcome.rc), logged |-> <<>>]

execute_install ==
    /\ pc = "execute" /\ action = "install"
    /\ LET built == _get_galaxy_context(options, config)
           install_content_type == "all"
           requested_content_specs == args
       IN  /\ config' = built.config
           /\ IF built.raised
              THEN /\ Failed(built.exc)
                   /\ UNCHANGED log_exceptions
              ELSE \E behaviour \in InstallBehaviours(requested_content_specs) :
                       LET installer == install_content_specs(requested_content_specs,
                                            options.ignore_errors, behaviour)
                           ended == install_try(installer.outcome)
                       IN  /\ calls' = Append(calls,
                                  [handler |-> "install.install_content_specs",
                                   galaxy_context |-> built.context,
                                   kwargs |-> [editable |-> options.editable_install,
                                               content_spec_strings |-> requested_content_specs,
                                               install_content_type |-> install_content_type,
                                               namespace_override |-> options.namespace,
                                               ignore_errors |-> options.ignore_errors,
                                               no_deps |-> options.no_deps,
                                               force_overwrite |-> options.force],
                                   outcome |-> installer.outcome,
                                   failing |-> behaviour.failing,
                                   msg |-> behaviour.msg,
                                   rc |-> behaviour.outcome.rc,
                                   processed |-> installer.processed])
                           /\ log_exceptions' = log_exceptions \o ended.logged
                           /\ result' = ended.result
                           /\ pc' = "done"
    /\ ExecuteFrame

MatchAll == [type |-> "MatchAll", terms |-> <<>>]
MatchLabels(labels) == [type |-> "MatchLabels", terms |-> labels]
MatchNamespacesOrLabels(terms) == [type |-> "MatchNamespacesOrLabels", terms |-> terms]

execute_remove ==
    /\ pc = "execute" /\ action = "remove"
    /\ IF Len(args) = 0
       THEN /\ Failed(CliOptionsError(<<"- you must specify at least one role to remove.">>))
            /\ UNCHANGED config
       ELSE LET built == _get_galaxy_context(options, config)
                \* args is not empty here, so match_filter is always bound
                match_filter == MatchLabels(args)
            IN  /\ config' = built.config
                /\ IF built.raised THEN Failed(built.exc)
                   ELSE \E outcome \in HandlerOutcomes :
                            Handled("remove.remove", built.context,
                                    [repository_match_filter |-> match_filter], outcome)
    /\ UNCHANGED log_exceptions
    /\ ExecuteFrame

\* execute_list's filter, taking its arguments for labels alone
list_match_filter_labels(positional) ==
    IF positional # <<>> THEN MatchLabels(positional) ELSE MatchAll

\* execute_list's choice of filter
list_match_filter(positional) ==
    IF positional # <<>> THEN MatchNamespacesOrLabels(positional) ELSE MatchAll

execute_list ==
    /\ pc = "execute" /\ action = "list"
    /\ LET built == _get_galaxy_context(options, config)
           match_filter == list_match_filter(args)
       IN  /\ config' = built.config
           /\ IF built.raised THEN Failed(built.exc)
              ELSE \E outcome \in HandlerOutcomes :
                       Handled("list_action.list", built.context,
                               [repository_match_filter |-> match_filter], outcome)
    /\ UNCHANGED log_exceptions
    /\ ExecuteFrame

galaxy_cli_version == <<"0.4.0">>

execute_version ==
    /\ pc = "execute" /\ action = "version"
    /\ \E outcome \in HandlerOutcomes :
           Handled("version.version", NoContext,
                   [config_file_path |-> config_file_path,
                    cli_version |-> galaxy_cli_version], outcome)
    /\ UNCHANGED <<config, log_exceptions>>
    /\ ExecuteFrame

Next ==
    \/ parse
    \/ run_load_config
    \/ run_build_context
    \/ execute_build
    \/ execute_info
    \/ execute_install
    \/ execute_remove
    \/ execute_list
    \/ execute_version

Spec == Init /\ [][Next]_vars

(***************************************************************************)
(* The context builder called on its own, over every pair of an options    *)
(* record and a configuration document.                                    *)
(***************************************************************************)
BuilderOptions ==
    UNION {ParsedOptions(act) : act \in VALID_ACTIONS}

InitBuilder ==
    /\ pc = "builder"
    /\ argv_action = ""
    /\ environ = <<>>
    /\ action = ""
    /\ options \in BuilderOptions
    /\ args = <<>>
    /\ config_file_path = None
    /\ config \in Configs
    /\ galaxy_context = NoContext
    /\ api = NoApi
    /\ calls = <<>>
    /\ log_exceptions = <<>>
    /\ result = NoResult

call_get_galaxy_context ==
    /\ pc = "builder"
    /\ LET built == _get_galaxy_context(options, config)
       IN  /\ config' = built.config
           /\ galaxy_context' = built.context
           /\ result' = IF built.raised THEN Raise(built.exc) ELSE Return(0)
    /\ pc' = "built"
    /\ UNCHANGED <<argv_action, environ, action, options, args, config_file_path,
                   api, calls, log_exceptions>>

NextBuilder == call_get_galaxy_context

SpecBuilder == InitBuilder /\ [][NextBuilder]_vars

(***************************************************************************)
(* Properties                                                              *)
(***************************************************************************)
\* the content-path option counts as given when it holds a non-empty string,
\* which is how the code tests it
OptionContentPathGiven(opts) ==
    "content_path" \in DOMAIN opts /\ opts.content_path \notin {None, <<>>}

GlobalInstallSet(opts) ==
    "global_install" \in DOMAIN opts /\ opts.global_install

\* C1: for every options record and configuration document given to the
\* context builder, the content path of the context it returns is the
\* content-path option when that is given, else the configuration's
\* global_content_path when global_install is set, else the configuration's
\* content_path (with the home shorthand expanded).
C1_OptionsContentPathFirst ==
    (pc = "built" /\ result.kind = "return") =>
        galaxy_context.content_path =
            expanduser(IF OptionContentPathGiven(options) THEN options.content_path
                       ELSE IF GlobalInstallSet(options) THEN config.global_content_path
                       ELSE config.content_path)

MutexMessage == <<"--content-path and --global are mutually exclusive">>

BothContentPathSources ==
    action = "install" /\ OptionContentPathGiven(options) /\ options.global_install

\* C2: an install invocation with both the content-path option and the
\* global-install option ends in parse() with the CliOptionsError about
\* their exclusion, with no configuration loaded, no context built, no API
\* object created and no handler called; no other invocation ends with
\* that error.
C2_MutuallyExclusive ==
    pc # "parse" =>
        IF BothContentPathSources
        THEN /\ pc = "done"
             /\ result = Raise(CliOptionsError(MutexMessage))
             /\ config = NoConfig
             /\ config_file_path = None
             /\ galaxy_context = NoContext
             /\ api = NoApi
             /\ calls = <<>>
        ELSE result.exc # CliOptionsError(MutexMessage)

C2_Witness ==
    /\ pc = "done"
    /\ BothContentPathSources
    /\ result.exc = CliOptionsError(MutexMessage)

EnvSet(name) == name \in DOMAIN environ /\ environ[name] # <<>>

\* C3: the configuration file path run() settles on is that of MAZER_CONFIG
\* when it is set (non-empty), else that of ANSIBLE_GALAXY_CONFIG when it is
\* set, else that of defaults.CONFIG_FILE, made absolute with the home
\* shorthand expanded.
C3_ConfigPathPrecedence ==
    pc \in {"context", "execute"} \/ (pc = "done" /\ config # NoConfig) =>
        config_file_path =
            abspath(expanduser(
                IF EnvSet("MAZER_CONFIG") THEN environ["MAZER_CONFIG"]
                ELSE IF EnvSet("ANSIBLE_GALAXY_CONFIG") THEN environ["ANSIBLE_GALAXY_CONFIG"]
                ELSE CONFIG_FILE))

C3_Witness ==
    /\ pc = "done"
    /\ EnvSet("MAZER_CONFIG") /\ EnvSet("ANSIBLE_GALAXY_CONFIG")
    /\ config_file_path = abspath(expanduser(environ["MAZER_CONFIG"]))
    /\ config_file_path # abspath(expanduser(environ["ANSIBLE_GALAXY_CONFIG"]))

\* run() got as far as dispatching the action
Dispatched == pc = "done" /\ api # NoApi

NeedsTargetHandler ==
    IF action = "info" THEN "info.info_content_specs" ELSE "remove.remove"

\* C4: info or remove dispatched with no positional argument ends with a
\* CliOptionsError and its handler never called; with arguments it does not
\* end with that error and its handler is called exactly once.
C4_TargetsRequired ==
    (Dispatched /\ action \in {"info", "remove"}) =>
        IF args = <<>>
        THEN /\ result.kind = "raise"
             /\ result.exc.type = "CliOptionsError"
             /\ calls = <<>>
        ELSE /\ result.exc.type # "CliOptionsError"
             /\ Len(calls) = 1
             /\ calls[1].handler = NeedsTargetHandler

C4_Witness ==
    /\ Dispatched
    /\ action = "info"
    /\ args = <<>>
    /\ result.exc.type = "CliOptionsError"

\* the installer was called and one of the targets it took failed recoverably
RecoverableFailure ==
    /\ pc = "done"
    /\ action = "install"
    /\ Len(calls) = 1
    /\ \E i \in 1..Len(calls[1].processed) : calls[1].processed[i] \in calls[1].failing

C6_NoEmptyContentPath ==
    galaxy_context # NoContext => galaxy_context.content_path # <<>>

\* C7: when the external handler of any action fails, the invocation ends
\* with that very failure, never with a return; install has logged it.
C7_HandlerFailurePropagates ==
    (pc = "done" /\ calls # <<>> /\ calls[Len(calls)].outcome.kind = "raise") =>
        /\ result = calls[Len(calls)].outcome
        /\ action = "install" => log_exceptions = <<result.exc>>

C7_Witness ==
    /\ pc = "done"
    /\ action = "install"
    /\ calls # <<>>
    /\ calls[1].outcome.kind = "raise"
    /\ calls[1].outcome.exc \in UnexpectedErrors
    /\ result = calls[1].outcome
    /\ log_exceptions # <<>>

\* C8: a content path that is not empty is, in the context built from it,
\* absolute and free of the home shorthand.
C8_ContentPathAbsolute ==
    (galaxy_context # NoContext /\ galaxy_context.content_path # <<>>) =>
        /\ isabs(galaxy_context.content_path)
        /\ Head(galaxy_context.content_path) # "~"

\* C9: list hands its handler MatchAll when it has no arguments and
\* MatchNamespacesOrLabels of exactly its arguments otherwise; remove hands
\* its handler MatchLabels of exactly its arguments, of which there is at
\* least one; no other action hands a match filter over.
C9_MatchFilter ==
    \A i \in 1..Len(calls) :
        LET kwargs == calls[i].kwargs
        IN  IF action = "list"
            THEN kwargs.repository_match_filter =
                     IF args = <<>> THEN [type |-> "MatchAll", terms |-> <<>>]
                     ELSE [type |-> "MatchNamespacesOrLabels", terms |-> args]
            ELSE IF action = "remove"
            THEN /\ args # <<>>
                 /\ kwargs.repository_match_filter =
                        [type |-> "MatchLabels", terms |-> args]
            ELSE "repository_match_filter" \notin DOMAIN kwargs

C9_Witness ==
    /\ pc = "done"
    /\ action = "list"
    /\ Len(args) = 2
    /\ Len(calls) = 1
    /\ calls[1].kwargs.repository_match_filter.type = "MatchNamespacesOrLabels"
    /\ calls[1].kwargs.repository_match_filter.terms = args

\* the server settings the options and a configuration document call for
ExpectedServer(opts, cfg) ==
    [url |-> IF opts.server_url \notin {None, <<>>} THEN opts.server_url
             ELSE cfg.server.url,
     ignore_certs |-> IF opts.ignore_certs THEN TRUE ELSE cfg.server.ignore_certs]

\* C10: every context built has the configuration's server block with the
\* url of the server-URL option when one is given (non-empty) and the
\* ignore_certs of the ignore-certs option when that is given, and building
\* it leaves the configuration document as it was loaded.
C10_ServerOverrides ==
    [][/\ pc = "context" =>
            /\ config' = config
            /\ galaxy_context' # NoContext =>
                   galaxy_context'.server = ExpectedServer(options, config)
       /\ pc = "execute" =>
            /\ config' = config
            /\ \A i \in 1..Len(calls') :
                   calls'[i].galaxy_context # NoContext =>
                       calls'[i].galaxy_context.server = ExpectedServer(options, config)
      ]_vars

C10_Witness ==
    /\ pc = "done"
    /\ calls # <<>>
    /\ options.server_url = <<"https://cli.example">>
    /\ options.ignore_certs
    /\ ~config.server.ignore_certs
    /\ calls[1].galaxy_context.server = [url |-> options.server_url, ignore_certs |-> TRUE]
    /\ config.server.url = <<"https://galaxy.example">>
====
